---- MODULE Spec2Model ----
(***************************************************************************)
(* Model of the MCP Gmail & PostgreSQL server: the two backend adapters    *)
(* (GmailService, PostgresService), the request router of the two         *)
(* transport bindings (index.ts: standard streams, http-server.ts: SSE)    *)
(* and the shutdown path.                                                  *)
(*                                                                         *)
(* Text is modelled by TLA+ strings; an optional value (a JavaScript       *)
(* property that may be undefined) is the empty tuple when absent and a    *)
(* one-element tuple when present.                                         *)
(***************************************************************************)
EXTENDS Integers, Sequences, FiniteSets, TLC

VARIABLES
  env,      \* the environment configuration read by the constructors
  binding,  \* "stdio" (index.ts) or "http" (http-server.ts)
  startup,  \* the backend calls the constructors issued (the connection test)
  sse,      \* the event-stream connections of the HTTP binding
  gmail,    \* GmailService.gmail: "null" or "client"
  pool,     \* PostgresService.pool: "null" or "pool"
  phase,    \* "serving", "draining" (a cleanup awaits pool.end()) or "exited"
  ends,     \* the number of pool.end() calls made so far
  req,      \* the protocol request being answered
  res,      \* its response
  calls,    \* the backend calls its handler issued, in order
  invoked   \* the adapter methods its handler invoked, in order

vars == <<env, binding, startup, sse, ends, gmail, pool, phase, req, res, calls, invoked>>

(***************************************************************************)
(* Optional values.                                                        *)
(***************************************************************************)
None == <<>>

Some(x) == <<x>>

IsSome(o) == o # <<>>

Get(o) == o[1]

(***************************************************************************)
(* JavaScript string primitives used by the source.                        *)
(***************************************************************************)
CharAt(s, i) == SubSeq(s, i, i)

\* String.prototype.startsWith
StartsWith(s, p) == Len(s) >= Len(p) /\ SubSeq(s, 1, Len(p)) = p

LowerLetters == "abcdefghijklmnopqrstuvwxyz"

UpperLetters == "ABCDEFGHIJKLMNOPQRSTUVWXYZ"

UpperChar(c) ==
  IF \E i \in 1..Len(LowerLetters) : CharAt(LowerLetters, i) = c
  THEN CharAt(UpperLetters, CHOOSE i \in 1..Len(LowerLetters) : CharAt(LowerLetters, i) = c)
  ELSE c

RECURSIVE ConcatRange(_, _, _)
\* the concatenation of the strings xs[lo], ..., xs[hi]
ConcatRange(xs, lo, hi) ==
  IF lo > hi THEN ""
  ELSE IF lo = hi THEN xs[lo]
  ELSE LET mid == (lo + hi) \div 2
       IN ConcatRange(xs, lo, mid) \o ConcatRange(xs, mid + 1, hi)

\* the string made of a sequence of strings
Concat(xs) == ConcatRange(xs, 1, Len(xs))

\* String.prototype.toUpperCase
ToUpperCase(s) == Concat([i \in 1..Len(s) |-> UpperChar(CharAt(s, i))])

IsWhiteSpace(c) == c \in {" ", "\t", "\n", "\r", "\f"}

RECURSIVE TrimStart(_)
TrimStart(s) ==
  IF s # "" /\ IsWhiteSpace(CharAt(s, 1)) THEN TrimStart(SubSeq(s, 2, Len(s))) ELSE s

RECURSIVE TrimEnd(_)
TrimEnd(s) ==
  IF s # "" /\ IsWhiteSpace(CharAt(s, Len(s))) THEN TrimEnd(SubSeq(s, 1, Len(s) - 1)) ELSE s

\* String.prototype.trim
Trim(s) == TrimEnd(TrimStart(s))

RECURSIVE Join(_, _)
\* Array.prototype.join
Join(xs, sep) ==
  IF xs = <<>> THEN ""
  ELSE IF Len(xs) = 1 THEN xs[1]
  ELSE xs[1] \o sep \o Join(Tail(xs), sep)

\* String.prototype.indexOf(sep, from), 1-based; 0 when sep does not occur
IndexOfFrom(s, sep, from) ==
  LET found == {i \in from..(Len(s) - Len(sep) + 1) : SubSeq(s, i, i + Len(sep) - 1) = sep}
  IN IF found = {} THEN 0 ELSE CHOOSE i \in found : \A j \in found : i <= j

RECURSIVE Split(_, _)
\* String.prototype.split with a non-empty separator
Split(s, sep) ==
  LET i == IndexOfFrom(s, sep, 1)
  IN IF i = 0 THEN <<s>>
     ELSE <<SubSeq(s, 1, i - 1)>> \o Split(SubSeq(s, i + Len(sep), Len(s)), sep)

RECURSIVE FilterNotEmptyString(_)
\* Array.prototype.filter((line) => line !== ""), over an array whose elements may
\* be undefined (an undefined element is not the empty string and is kept)
FilterNotEmptyString(xs) ==
  IF xs = <<>> THEN <<>>
  ELSE IF Head(xs) = Some("") THEN FilterNotEmptyString(Tail(xs))
  ELSE <<Head(xs)>> \o FilterNotEmptyString(Tail(xs))

\* Array.prototype.join over such an array: an undefined element joins as ""
JoinOptional(xs, sep) ==
  Join([i \in 1..Len(xs) |-> IF IsSome(xs[i]) THEN Get(xs[i]) ELSE ""], sep)

\* JavaScript truthiness of an optional string: undefined and "" are falsy
Truthy(o) == IsSome(o) /\ Get(o) # ""

\* a template literal's rendering of an optional string
TemplateText(o) == IF IsSome(o) THEN Get(o) ELSE "undefined"

\* property lookup on an argument object: undefined when the key is missing
Prop(obj, k) == IF k \in DOMAIN obj THEN Some(obj[k]) ELSE None

(***************************************************************************)
(* Buffer: UTF-8 bytes of a string (the model's texts are ASCII, one byte  *)
(* per character) and the base64 codec of Node's Buffer.                   *)
(***************************************************************************)
\* the characters of codes 32..95 and of codes 97..126
PrintableLow == " !\"#$%&'()*+,-./0123456789:;<=>?@ABCDEFGHIJKLMNOPQRSTUVWXYZ[\\]^_"

PrintableHigh == "abcdefghijklmnopqrstuvwxyz{|}~"

CharCode ==
  [c \in {CharAt(PrintableLow, i) : i \in 1..Len(PrintableLow)}
           \cup {CharAt(PrintableHigh, i) : i \in 1..Len(PrintableHigh)}
           \cup {"\t", "\n", "\r"} |->
     IF c = "\t" THEN 9
     ELSE IF c = "\n" THEN 10
     ELSE IF c = "\r" THEN 13
     ELSE IF \E i \in 1..Len(PrintableLow) : CharAt(PrintableLow, i) = c
     THEN 31 + (CHOOSE i \in 1..Len(PrintableLow) : CharAt(PrintableLow, i) = c)
     ELSE 96 + (CHOOSE i \in 1..Len(PrintableHigh) : CharAt(PrintableHigh, i) = c)]

CodeChar ==
  [b \in 0..255 |->
     IF b = 9 THEN "\t"
     ELSE IF b = 10 THEN "\n"
     ELSE IF b = 13 THEN "\r"
     ELSE IF b >= 32 /\ b <= 95 THEN CharAt(PrintableLow, b - 31)
     ELSE IF b >= 97 /\ b <= 126 THEN CharAt(PrintableHigh, b - 96)
     ELSE "?"]

\* Buffer.from(string): the UTF-8 bytes
BufferFromUtf8(s) == [i \in 1..Len(s) |-> CharCode[CharAt(s, i)]]

\* buffer.toString("utf-8")
BufferToUtf8(bytes) == Concat([i \in 1..Len(bytes) |-> CodeChar[bytes[i]]])

Base64Alphabet == "ABCDEFGHIJKLMNOPQRSTUVWXYZabcdefghijklmnopqrstuvwxyz0123456789+/"

B64Char(v) == CharAt(Base64Alphabet, v + 1)

\* the k-th character (from 0) of the base64 text of bytes: each group of three
\* bytes gives four characters, a short last group is padded with "="
Base64CharAt(bytes, k) ==
  LET g == 3 * (k \div 4)
      b1 == bytes[g + 1]
      b2 == IF g + 2 <= Len(bytes) THEN bytes[g + 2] ELSE 0
      b3 == IF g + 3 <= Len(bytes) THEN bytes[g + 3] ELSE 0
  IN CASE k % 4 = 0 -> B64Char(b1 \div 4)
       [] k % 4 = 1 -> B64Char((b1 % 4) * 16 + b2 \div 16)
       [] k % 4 = 2 -> IF g + 2 <= Len(bytes) THEN B64Char((b2 % 16) * 4 + b3 \div 64) ELSE "="
       [] k % 4 = 3 -> IF g + 3 <= Len(bytes) THEN B64Char(b3 % 64) ELSE "="

\* buffer.toString("base64"): standard alphabet, "=" padding
Base64Encode(bytes) ==
  Concat([k \in 1..(4 * ((Len(bytes) + 2) \div 3)) |-> Base64CharAt(bytes, k - 1)])

\* the value of each character of the standard and of the URL-safe alphabet
B64Values ==
  [c \in {CharAt(Base64Alphabet, i) : i \in 1..Len(Base64Alphabet)} \cup {"-", "_"} |->
     IF c = "-" THEN 62
     ELSE IF c = "_" THEN 63
     ELSE (CHOOSE i \in 1..Len(Base64Alphabet) : CharAt(Base64Alphabet, i) = c) - 1]

\* the value of a base64 character in either alphabet, -1 for any other one
B64Value(c) == IF c \in DOMAIN B64Values THEN B64Values[c] ELSE -1

\* the sextets up to the first "=", characters outside the alphabets skipped
B64Sextets(s) ==
  LET stop == IndexOfFrom(s, "=", 1)
      n == IF stop = 0 THEN Len(s) ELSE stop - 1
      IsSextet(v) == v >= 0
  IN SelectSeq([i \in 1..n |-> B64Value(CharAt(s, i))], IsSextet)

\* the bytes the sextets spell: byte j (from 0) lies in the group of four sextets
\* j \div 3; an incomplete last byte is dropped
SextetsToBytes(v) ==
  [j \in 1..((Len(v) * 6) \div 8) |->
     LET g == 4 * ((j - 1) \div 3)
     IN CASE (j - 1) % 3 = 0 -> v[g + 1] * 4 + v[g + 2] \div 16
          [] (j - 1) % 3 = 1 -> (v[g + 2] % 16) * 16 + v[g + 3] \div 4
          [] (j - 1) % 3 = 2 -> (v[g + 3] % 4) * 64 + v[g + 4]]

\* Buffer.from(data, "base64"): accepts the standard and the URL-safe alphabet
BufferFromBase64(s) == SextetsToBytes(B64Sextets(s))

\* s.replace(/c/g, d) for a one-character pattern
ReplaceAllChar(s, c, d) ==
  Concat([i \in 1..Len(s) |-> IF CharAt(s, i) = c THEN d ELSE CharAt(s, i)])

RECURSIVE StripTrailingEquals(_)
\* s.replace(/=+$/, "")
StripTrailingEquals(s) ==
  IF s # "" /\ CharAt(s, Len(s)) = "=" THEN StripTrailingEquals(SubSeq(s, 1, Len(s) - 1)) ELSE s

\* Buffer.from(raw).toString("base64").replace(/\+/g,"-").replace(/\//g,"_").replace(/=+$/,"")
Base64UrlEncode(s) ==
  StripTrailingEquals(ReplaceAllChar(ReplaceAllChar(Base64Encode(BufferFromUtf8(s)), "+", "-"), "/", "_"))

\* Buffer.from(data, "base64").toString("utf-8")
Base64DecodeToText(data) == BufferToUtf8(BufferFromBase64(data))

(***************************************************************************)
(* Responses.  A handler either returns a value or throws an Error; the    *)
(* kind names the throw site in the terms of the error taxonomy, the       *)
(* message is the Error's message.                                         *)
(***************************************************************************)
NoValue == [none |-> TRUE]

Ok(v) == [status |-> "ok", kind |-> "", message |-> "", value |-> v]

Throw(kind, msg) == [status |-> "error", kind |-> kind, message |-> msg, value |-> NoValue]

\* the outcome of a handler: its response and the backend calls it issued
Reply(r, c) == [res |-> r, calls |-> c]

\* JSON.stringify(v, null, 2): the text that serialises v
JsonText(v) == [json |-> v]

\* { content: [{ type: "text", text }] }
TextContent(v) == [content |-> <<[type |-> "text", text |-> JsonText(v)]>>]

\* the result of one vendor-SDK or SQL-driver call: resolved with data or rejected
BackendOk(d) == [ok |-> TRUE, data |-> d, error |-> ""]

BackendFail(msg) == [ok |-> FALSE, data |-> NoValue, error |-> msg]

(***************************************************************************)
(* GmailService                                                            *)
(***************************************************************************)
LowerChar(c) ==
  IF \E i \in 1..Len(UpperLetters) : CharAt(UpperLetters, i) = c
  THEN CharAt(LowerLetters, CHOOSE i \in 1..Len(UpperLetters) : CharAt(UpperLetters, i) = c)
  ELSE c

\* String.prototype.toLowerCase
ToLowerCase(s) == Concat([i \in 1..Len(s) |-> LowerChar(CharAt(s, i))])

\* mutant of InitializeGmail: the refresh token alone activates the client
InitializeGmailTokenOnly(e) == IF Truthy(e.refreshToken) THEN "client" ELSE "null"

\* the gmail field after the constructor: "client" when the API client was built
InitializeGmail(e) ==
  IF ~Truthy(e.clientId) \/ ~Truthy(e.clientSecret) THEN "null"
  ELSE IF Truthy(e.refreshToken) THEN "client"
  ELSE "null"

\* the tool descriptors: name and the required properties of the input schema
GmailTools ==
  << [name |-> "gmail_list_emails", required |-> <<>>],
     [name |-> "gmail_read_email", required |-> <<"messageId">>],
     [name |-> "gmail_send_email", required |-> <<"to", "subject", "body">>],
     [name |-> "gmail_get_labels", required |-> <<>>] >>

GmailGetTools(g) == IF g = "null" THEN <<>> ELSE GmailTools

DefaultMaxResults == 10

InboxMaxResults == 20

\* x || null
OrNull(o) == IF Truthy(o) THEN o ELSE None

GmailListEmails(g, args, be) ==
  IF args = None
  THEN Reply(Throw("TypeError", "Cannot destructure property 'query' of 'args' as it is undefined."), <<>>)
  ELSE IF g = "null"
  THEN Reply(Throw("TypeError", "Cannot read properties of null (reading 'users')"), <<>>)
  ELSE
    LET a == Get(args)
        maxResults == IF IsSome(Prop(a, "maxResults")) THEN Get(Prop(a, "maxResults")) ELSE DefaultMaxResults
        call == [api |-> "gmail.users.messages.list",
                 request |-> [userId |-> "me", q |-> Prop(a, "query"),
                              maxResults |-> maxResults, labelIds |-> Prop(a, "labelIds")],
                 result |-> be]
        messages == IF IsSome(be.data.messages) THEN Get(be.data.messages) ELSE <<>>
        emailList == [i \in 1..Len(messages) |->
                        [id |-> OrNull(messages[i].id), threadId |-> OrNull(messages[i].threadId)]]
    IN IF ~be.ok THEN Reply(Throw("BackendFailure", be.error), <<call>>)
       ELSE Reply(Ok(TextContent(emailList)), <<call>>)

RECURSIVE HeaderMap(_, _)
\* headers.forEach: headers[name.toLowerCase()] = value when both are truthy
HeaderMap(headers, acc) ==
  IF headers = <<>> THEN acc
  ELSE LET h == Head(headers)
       IN IF Truthy(h.name) /\ Truthy(h.value)
          THEN HeaderMap(Tail(headers),
                 [k \in DOMAIN acc \cup {ToLowerCase(Get(h.name))} |->
                    IF k = ToLowerCase(Get(h.name)) THEN Get(h.value) ELSE acc[k]])
          ELSE HeaderMap(Tail(headers), acc)

\* part.body?.data
PartData(part) == IF IsSome(part.body) THEN Get(part.body).data ELSE None

RECURSIVE BodyPartsKeepEmpty(_)
\* mutant of BodyParts: a part without data contributes an empty text
BodyPartsKeepEmpty(parts) ==
  IF parts = <<>> THEN <<>>
  ELSE (IF Truthy(PartData(Head(parts)))
        THEN <<Base64DecodeToText(Get(PartData(Head(parts))))>>
        ELSE <<"">>) \o BodyPartsKeepEmpty(Tail(parts))

RECURSIVE BodyParts(_)
\* parts.forEach: push the decoded data of every part whose body.data is truthy
BodyParts(parts) ==
  IF parts = <<>> THEN <<>>
  ELSE (IF Truthy(PartData(Head(parts)))
        THEN <<Base64DecodeToText(Get(PartData(Head(parts))))>>
        ELSE <<>>) \o BodyParts(Tail(parts))

PartSeparator == "\n---\n"

\* mutant of ExtractBody: the parts are preferred to the top-level body
ExtractBodyPartsFirst(message) ==
  IF IsSome(message.payload) /\ IsSome(Get(message.payload).parts)
  THEN Some(Join(BodyParts(Get(Get(message.payload).parts)), PartSeparator))
  ELSE IF IsSome(message.payload) /\ Truthy(PartData(Get(message.payload)))
  THEN Some(Base64DecodeToText(Get(PartData(Get(message.payload)))))
  ELSE None

\* the "Extract body" step: the body property of emailData, undefined when unset
ExtractBody(message) ==
  IF IsSome(message.payload) /\ Truthy(PartData(Get(message.payload)))
  THEN Some(Base64DecodeToText(Get(PartData(Get(message.payload)))))
  ELSE IF IsSome(message.payload) /\ IsSome(Get(message.payload).parts)
  THEN Some(Join(BodyParts(Get(Get(message.payload).parts)), PartSeparator))
  ELSE None

\* the "Parse headers" step: the headers property of emailData
ParseHeaders(message) ==
  IF IsSome(message.payload) /\ IsSome(Get(message.payload).headers)
  THEN Some(HeaderMap(Get(Get(message.payload).headers), <<>>))
  ELSE None

GmailReadEmail(g, args, be) ==
  IF args = None
  THEN Reply(Throw("TypeError", "Cannot destructure property 'messageId' of 'args' as it is undefined."), <<>>)
  ELSE
    LET a == Get(args)
        format == IF IsSome(Prop(a, "format")) THEN Get(Prop(a, "format")) ELSE "full"
        call == [api |-> "gmail.users.messages.get",
                 request |-> [userId |-> "me", id |-> Prop(a, "messageId"), format |-> format],
                 result |-> be]
        message == be.data
        emailData == [id |-> OrNull(message.id), threadId |-> OrNull(message.threadId),
                      labelIds |-> message.labelIds, snippet |-> OrNull(message.snippet),
                      headers |-> ParseHeaders(message), body |-> ExtractBody(message)]
    IN IF ~be.ok THEN Reply(Throw("BackendFailure", be.error), <<call>>)
       ELSE Reply(Ok(TextContent(emailData)), <<call>>)

\* mutant of RawMessage: body takes precedence over htmlBody
RawMessagePlainFirst(a) ==
  LET body == Prop(a, "body")
      htmlBody == Prop(a, "htmlBody")
      cc == Prop(a, "cc")
      bcc == Prop(a, "bcc")
      contentType == IF Truthy(htmlBody) THEN "text/html" ELSE "text/plain"
  IN JoinOptional(
       FilterNotEmptyString(
         << Some("To: " \o TemplateText(Prop(a, "to"))),
            Some(IF Truthy(cc) THEN "Cc: " \o Get(cc) ELSE ""),
            Some(IF Truthy(bcc) THEN "Bcc: " \o Get(bcc) ELSE ""),
            Some("Subject: " \o TemplateText(Prop(a, "subject"))),
            Some("Content-Type: " \o contentType \o "; charset=utf-8"), Some(""),
            IF Truthy(body) THEN body ELSE htmlBody >>),
       "\r\n")

\* the rawMessage of sendEmail: the array of lines, filtered and joined
RawMessage(a) ==
  LET to == Prop(a, "to")
      subject == Prop(a, "subject")
      body == Prop(a, "body")
      htmlBody == Prop(a, "htmlBody")
      cc == Prop(a, "cc")
      bcc == Prop(a, "bcc")
      toLine == "To: " \o TemplateText(to)
      ccLine == IF Truthy(cc) THEN "Cc: " \o Get(cc) ELSE ""
      bccLine == IF Truthy(bcc) THEN "Bcc: " \o Get(bcc) ELSE ""
      subjectLine == "Subject: " \o TemplateText(subject)
      contentType == IF Truthy(htmlBody) THEN "text/html" ELSE "text/plain"
      emailBody == IF Truthy(htmlBody) THEN htmlBody ELSE body
  IN JoinOptional(
       FilterNotEmptyString(
         << Some(toLine), Some(ccLine), Some(bccLine), Some(subjectLine),
            Some("Content-Type: " \o contentType \o "; charset=utf-8"), Some(""), emailBody >>),
       "\r\n")

GmailSendEmail(g, args, be) ==
  IF args = None
  THEN Reply(Throw("TypeError", "Cannot destructure property 'to' of 'args' as it is undefined."), <<>>)
  ELSE
    LET encodedMessage == Base64UrlEncode(RawMessage(Get(args)))
        call == [api |-> "gmail.users.messages.send",
                 request |-> [userId |-> "me", requestBody |-> [raw |-> encodedMessage]],
                 result |-> be]
    IN IF ~be.ok THEN Reply(Throw("BackendFailure", be.error), <<call>>)
       ELSE Reply(Ok(TextContent([success |-> TRUE, messageId |-> be.data.id,
                                  threadId |-> be.data.threadId])), <<call>>)

GmailGetLabels(g, be) ==
  LET call == [api |-> "gmail.users.labels.list", request |-> [userId |-> "me"], result |-> be]
  IN IF ~be.ok THEN Reply(Throw("BackendFailure", be.error), <<call>>)
     ELSE Reply(Ok(TextContent(IF IsSome(be.data.labels) THEN Get(be.data.labels) ELSE <<>>)), <<call>>)

\* mutant of GmailWrap: the error is rethrown as it came
GmailWrapBare(r) == r

\* the catch clause of handleTool: rethrow with the adapter's prefix
GmailWrap(r) ==
  IF r.res.status = "error"
  THEN Reply(Throw(r.res.kind, "Gmail operation failed: " \o r.res.message), r.calls)
  ELSE r

GmailNotInitialized ==
  Throw("NotConfigured", "Gmail service not initialized. Please check your Gmail credentials.")

GmailHandleTool(g, name, args, be) ==
  IF g = "null" THEN Reply(GmailNotInitialized, <<>>)
  ELSE GmailWrap(
    CASE name = "gmail_list_emails" -> GmailListEmails(g, args, be)
      [] name = "gmail_read_email" -> GmailReadEmail(g, args, be)
      [] name = "gmail_send_email" -> GmailSendEmail(g, args, be)
      [] name = "gmail_get_labels" -> GmailGetLabels(g, be)
      [] OTHER -> Reply(Throw("UnknownTool", "Unknown Gmail tool: " \o name), <<>>))

\* mutant of GmailReadResource: the URI is matched by prefix
GmailReadResourceByPrefix(g, uri, be) ==
  IF StartsWith(uri, "gmail://inbox")
  THEN LET emails == GmailListEmails(g, Some([maxResults |-> InboxMaxResults]), be)
       IN IF emails.res.status = "error" THEN emails
          ELSE Reply(Ok([contents |-> <<[uri |-> uri, mimeType |-> "application/json",
                                         text |-> emails.res.value.content[1].text]>>]),
                     emails.calls)
  ELSE Reply(Throw("UnknownResource", "Unknown Gmail resource: " \o uri), <<>>)

GmailReadResource(g, uri, be) ==
  IF uri = "gmail://inbox"
  THEN LET emails == GmailListEmails(g, Some([maxResults |-> InboxMaxResults]), be)
       IN IF emails.res.status = "error" THEN emails
          ELSE Reply(Ok([contents |-> <<[uri |-> uri, mimeType |-> "application/json",
                                         text |-> emails.res.value.content[1].text]>>]),
                     emails.calls)
  ELSE Reply(Throw("UnknownResource", "Unknown Gmail resource: " \o uri), <<>>)

(***************************************************************************)
(* PostgresService                                                         *)
(***************************************************************************)
\* the pool field after the constructor; the connection test's failure is
\* caught and logged, it does not change the field
\* mutant of InitializePostgres: a password that is set but empty builds a pool
InitializePostgresAnyPassword(e) == IF ~IsSome(e.password) THEN "null" ELSE "pool"

InitializePostgres(e) == IF ~Truthy(e.password) THEN "null" ELSE "pool"

\* this.pool.query('SELECT NOW()').catch(...): issued once a pool was built; its
\* rejection is logged and nothing else
ConnectionTest(p, be) ==
  IF p = "null" THEN <<>>
  ELSE <<[api |-> "pool.query", request |-> [text |-> "SELECT NOW()", values |-> <<>>], result |-> be]>>

PostgresTools ==
  << [name |-> "postgres_query", required |-> <<"query">>],
     [name |-> "postgres_execute", required |-> <<"query">>],
     [name |-> "postgres_get_tables", required |-> <<>>],
     [name |-> "postgres_get_table_schema", required |-> <<"tableName">>] >>

\* mutant of PostgresGetTools: the catalog is returned without a pool
PostgresGetToolsAlways(p) == PostgresTools

PostgresGetTools(p) == IF p = "null" THEN <<>> ELSE PostgresTools

\* const { query, params = [] } = args
QueryParams(a) == IF IsSome(Prop(a, "params")) THEN Get(Prop(a, "params")) ELSE <<>>

\* mutant of IsSelect: the query is not trimmed
IsSelectNoTrim(query) == StartsWith(ToUpperCase(query), "SELECT")

\* mutant of IsSelect: a statement that opens with WITH counts as a SELECT
IsSelectOrWith(query) ==
  StartsWith(ToUpperCase(Trim(query)), "SELECT") \/ StartsWith(ToUpperCase(Trim(query)), "WITH")

\* the statement-kind test shared by query and execute
IsSelect(query) == StartsWith(ToUpperCase(Trim(query)), "SELECT")

\* a call of pool.query, with the result the driver gave it
PoolQuery(text, params, be) ==
  [api |-> "pool.query", request |-> [text |-> text, values |-> params], result |-> be]

\* mutant of PostgresQuery: the statement is sent before its kind is checked
PostgresQuerySendFirst(args, be) ==
  IF args = None \/ Prop(Get(args), "query") = None
  THEN Reply(Throw("TypeError", "Cannot read properties of undefined (reading 'trim')"), <<>>)
  ELSE
    LET query == Get(Prop(Get(args), "query"))
        call == PoolQuery(query, QueryParams(Get(args)), be)
    IN IF ~be.ok THEN Reply(Throw("BackendFailure", be.error), <<call>>)
       ELSE IF ~StartsWith(ToUpperCase(Trim(query)), "SELECT")
       THEN Reply(Throw("WrongOperationKind",
                    "postgres_query only accepts SELECT queries. Use postgres_execute for write operations."),
                  <<call>>)
       ELSE Reply(Ok(TextContent(be.data.rows)), <<call>>)

PostgresQuery(args, be) ==
  IF args = None
  THEN Reply(Throw("TypeError", "Cannot destructure property 'query' of 'args' as it is undefined."), <<>>)
  ELSE IF Prop(Get(args), "query") = None
  THEN Reply(Throw("TypeError", "Cannot read properties of undefined (reading 'trim')"), <<>>)
  ELSE
    LET query == Get(Prop(Get(args), "query"))
        call == PoolQuery(query, QueryParams(Get(args)), be)
        response == [rows |-> be.data.rows,
                     rowCount |-> IF IsSome(be.data.rowCount) THEN Get(be.data.rowCount) ELSE 0,
                     fields |-> [i \in 1..Len(be.data.fields) |->
                                   [name |-> be.data.fields[i].name,
                                    dataTypeID |-> be.data.fields[i].dataTypeID]]]
    IN IF ~IsSelect(query)
       THEN Reply(Throw("WrongOperationKind",
                    "postgres_query only accepts SELECT queries. Use postgres_execute for write operations."), <<>>)
       ELSE IF ~be.ok THEN Reply(Throw("BackendFailure", be.error), <<call>>)
       ELSE Reply(Ok(TextContent(response)), <<call>>)

PostgresExecute(args, be) ==
  IF args = None
  THEN Reply(Throw("TypeError", "Cannot destructure property 'query' of 'args' as it is undefined."), <<>>)
  ELSE IF Prop(Get(args), "query") = None
  THEN Reply(Throw("TypeError", "Cannot read properties of undefined (reading 'trim')"), <<>>)
  ELSE
    LET query == Get(Prop(Get(args), "query"))
        call == PoolQuery(query, QueryParams(Get(args)), be)
        response == [success |-> TRUE, rowCount |-> be.data.rowCount, command |-> be.data.command]
    IN IF IsSelect(query)
       THEN Reply(Throw("WrongOperationKind",
                    "postgres_execute is for write operations. Use postgres_query for SELECT queries."), <<>>)
       ELSE IF ~be.ok THEN Reply(Throw("BackendFailure", be.error), <<call>>)
       ELSE Reply(Ok(TextContent(response)), <<call>>)

\* the two catalog statements (the template literals' line breaks and indentation
\* written as single spaces)
TablesQuery == "SELECT table_name, table_type FROM information_schema.tables WHERE table_schema = $1 ORDER BY table_name;"

ColumnsQuery == "SELECT column_name, data_type, is_nullable, column_default, character_maximum_length, numeric_precision, numeric_scale FROM information_schema.columns WHERE table_schema = $1 AND table_name = $2 ORDER BY ordinal_position;"

\* mutant of SchemaOf: no default, an omitted schema is passed on as it is
SchemaOfNoDefault(a) == TemplateText(Prop(a, "schema"))

\* const { schema = 'public' } = args
SchemaOf(a) == IF IsSome(Prop(a, "schema")) THEN Get(Prop(a, "schema")) ELSE "public"

PostgresGetTables(args, be) ==
  IF args = None
  THEN Reply(Throw("TypeError", "Cannot destructure property 'schema' of 'args' as it is undefined."), <<>>)
  ELSE
    LET call == PoolQuery(TablesQuery, <<Some(SchemaOf(Get(args)))>>, be)
    IN IF ~be.ok THEN Reply(Throw("BackendFailure", be.error), <<call>>)
       ELSE Reply(Ok(TextContent(be.data.rows)), <<call>>)

PostgresGetTableSchema(args, be) ==
  IF args = None
  THEN Reply(Throw("TypeError", "Cannot destructure property 'tableName' of 'args' as it is undefined."), <<>>)
  ELSE
    LET call == PoolQuery(ColumnsQuery, <<Some(SchemaOf(Get(args))), Prop(Get(args), "tableName")>>, be)
    IN IF ~be.ok THEN Reply(Throw("BackendFailure", be.error), <<call>>)
       ELSE Reply(Ok(TextContent(be.data.rows)), <<call>>)

\* mutant of PostgresWrap: a failed statement is sent once more before rethrowing
PostgresWrapRetry(r) ==
  IF r.res.status = "error"
  THEN Reply(Throw(r.res.kind, "PostgreSQL operation failed: " \o r.res.message), r.calls \o r.calls)
  ELSE r

\* the catch clause of handleTool: rethrow with the adapter's prefix
PostgresWrap(r) ==
  IF r.res.status = "error"
  THEN Reply(Throw(r.res.kind, "PostgreSQL operation failed: " \o r.res.message), r.calls)
  ELSE r

PostgresNotInitialized ==
  Throw("NotConfigured", "PostgreSQL service not initialized. Please check your database credentials.")

\* mutant of PostgresHandleTool: the pool is not tested before the dispatch
PostgresHandleToolNoGuard(p, name, args, be) ==
  PostgresWrap(
    CASE name = "postgres_query" -> PostgresQuery(args, be)
      [] name = "postgres_execute" -> PostgresExecute(args, be)
      [] name = "postgres_get_tables" -> PostgresGetTables(args, be)
      [] name = "postgres_get_table_schema" -> PostgresGetTableSchema(args, be)
      [] OTHER -> Reply(Throw("UnknownTool", "Unknown PostgreSQL tool: " \o name), <<>>))

\* mutant of PostgresHandleTool: the switch has no case for the schema tool
PostgresHandleToolNoSchemaCase(p, name, args, be) ==
  IF p = "null" THEN Reply(PostgresNotInitialized, <<>>)
  ELSE PostgresWrap(
    CASE name = "postgres_query" -> PostgresQuery(args, be)
      [] name = "postgres_execute" -> PostgresExecute(args, be)
      [] name = "postgres_get_tables" -> PostgresGetTables(args, be)
      [] OTHER -> Reply(Throw("UnknownTool", "Unknown PostgreSQL tool: " \o name), <<>>))

PostgresHandleTool(p, name, args, be) ==
  IF p = "null" THEN Reply(PostgresNotInitialized, <<>>)
  ELSE PostgresWrap(
    CASE name = "postgres_query" -> PostgresQuery(args, be)
      [] name = "postgres_execute" -> PostgresExecute(args, be)
      [] name = "postgres_get_tables" -> PostgresGetTables(args, be)
      [] name = "postgres_get_table_schema" -> PostgresGetTableSchema(args, be)
      [] OTHER -> Reply(Throw("UnknownTool", "Unknown PostgreSQL tool: " \o name), <<>>))

\* X || default for an environment variable
OrDefault(o, d) == IF Truthy(o) THEN Get(o) ELSE d

\* mutant of PostgresReadResource: a failing probe makes the read fail
PostgresReadResourceProbeThrows(p, e, uri, be) ==
  IF uri = "postgres://connection"
  THEN LET isConnected == p # "null"
           probe == IF isConnected THEN <<PoolQuery("SELECT 1", <<>>, be)>> ELSE <<>>
       IN IF isConnected /\ ~be.ok THEN Reply(Throw("BackendFailure", be.error), probe)
          ELSE Reply(Ok([contents |-> <<[uri |-> uri, mimeType |-> "application/json",
                                         text |-> JsonText([status |-> IF isConnected THEN "connected"
                                                                       ELSE "disconnected",
                                                            database |-> OrDefault(e.database, "postgres"),
                                                            host |-> OrDefault(e.host, "localhost")])]>>]),
                     probe)
  ELSE Reply(Throw("UnknownResource", "Unknown PostgreSQL resource: " \o uri), <<>>)

PostgresReadResource(p, e, uri, be) ==
  IF uri = "postgres://connection"
  THEN LET isConnected == p # "null"
           status == IF ~isConnected THEN "disconnected"
                     ELSE IF be.ok THEN "connected" ELSE "error"
           probe == IF isConnected THEN <<PoolQuery("SELECT 1", <<>>, be)>> ELSE <<>>
       IN Reply(Ok([contents |-> <<[uri |-> uri, mimeType |-> "application/json",
                                    text |-> JsonText([status |-> status,
                                                       database |-> OrDefault(e.database, "postgres"),
                                                       host |-> OrDefault(e.host, "localhost")])]>>]),
                probe)
  ELSE Reply(Throw("UnknownResource", "Unknown PostgreSQL resource: " \o uri), <<>>)

(***************************************************************************)
(* The request handlers of the two bindings (MCPServer.setupHandlers and   *)
(* MCPHTTPServer.createMCPServer).  A routed reply also names the adapter  *)
(* methods the handler invoked.                                            *)
(***************************************************************************)
Routed(r, methods) == [res |-> r.res, calls |-> r.calls, invoked |-> methods]

\* const typedArgs = args as Record<string, unknown>       (index.ts)
\* const typedArgs = (args || {}) as Record<string, unknown> (http-server.ts)
TypedArgs(b, args) == IF b = "http" /\ args = None THEN Some(<<>>) ELSE args

HandleListTools(b, g, p) ==
  Routed(Reply(Ok([tools |-> GmailGetTools(g) \o PostgresGetTools(p)]), <<>>),
         <<"gmail.getTools", "postgres.getTools">>)

\* mutant of HandleCallTool: the prefixes are tested without their underscore
HandleCallToolLoosePrefix(b, g, p, name, args, be) ==
  IF StartsWith(name, "gmail")
  THEN Routed(GmailHandleTool(g, name, TypedArgs(b, args), be), <<"gmail.handleTool">>)
  ELSE IF StartsWith(name, "postgres")
  THEN Routed(PostgresHandleTool(p, name, TypedArgs(b, args), be), <<"postgres.handleTool">>)
  ELSE Routed(Reply(Throw("UnknownTool", "Unknown tool: " \o name), <<>>), <<>>)

HandleCallTool(b, g, p, name, args, be) ==
  IF StartsWith(name, "gmail_")
  THEN Routed(GmailHandleTool(g, name, TypedArgs(b, args), be), <<"gmail.handleTool">>)
  ELSE IF StartsWith(name, "postgres_")
  THEN Routed(PostgresHandleTool(p, name, TypedArgs(b, args), be), <<"postgres.handleTool">>)
  ELSE Routed(Reply(Throw("UnknownTool", "Unknown tool: " \o name), <<>>), <<>>)

ResourceCatalog ==
  << [uri |-> "gmail://inbox", name |-> "Gmail Inbox", mimeType |-> "application/json",
      description |-> "Access to Gmail inbox"],
     [uri |-> "postgres://connection", name |-> "PostgreSQL Connection", mimeType |-> "application/json",
      description |-> "PostgreSQL database connection status"] >>

\* mutant of HandleListResources: only the configured adapters' resources
HandleListResourcesConfigured(b, g, p) ==
  Routed(Reply(Ok([resources |-> (IF g = "null" THEN <<>> ELSE <<ResourceCatalog[1]>>)
                                   \o (IF p = "null" THEN <<>> ELSE <<ResourceCatalog[2]>>)]), <<>>), <<>>)

HandleListResources(b, g, p) == Routed(Reply(Ok([resources |-> ResourceCatalog]), <<>>), <<>>)

HandleReadResource(b, g, p, e, uri, be) ==
  IF StartsWith(uri, "gmail://")
  THEN Routed(GmailReadResource(g, uri, be), <<"gmail.readResource">>)
  ELSE IF StartsWith(uri, "postgres://")
  THEN Routed(PostgresReadResource(p, e, uri, be), <<"postgres.readResource">>)
  ELSE Routed(Reply(Throw("UnknownResource", "Unknown resource: " \o uri), <<>>), <<>>)

(***************************************************************************)
(* Inputs: environments, requests and backend results.                     *)
(***************************************************************************)
MaxParts == 3

MaxSignals == 2

SeqsUpTo(S, n) == UNION {[1..k -> S] : k \in 0..n}

\* the environments tried: every combination of the Gmail credentials without a
\* database password, and every combination of the database settings with the
\* Gmail client id and secret present
EnvSet ==
  [clientId : {None, Some(""), Some("id")}, clientSecret : {None, Some("secret")},
   refreshToken : {None, Some(""), Some("token")}, password : {None},
   database : {None}, host : {None}]
  \cup
  {[clientId |-> Some("id"), clientSecret |-> Some("secret"), refreshToken |-> t,
    password |-> pw, database |-> where[1], host |-> where[2]] :
     t \in {None, Some("token")}, pw \in {None, Some(""), Some("pw")},
     where \in {<<None, None>>, <<Some("shop"), Some("db.internal")>>}}

Queries ==
  {lead \o word \o rest :
     lead \in {"", " ", "\n\t "},
     word \in {"SELECT", "select", "SeLeCt", "SELEC", "SELECTED", "XSELECT", "DELETE FROM x",
               "insert", "WITH d AS (DELETE FROM x RETURNING *) SELECT", "", "(SELECT"},
     rest \in {"", " 1", " * FROM t "}}

QueryArgsSet ==
  {None, Some(<<>>), Some([query |-> "SELECT $1", params |-> <<"7">>]),
   Some([query |-> "UPDATE t SET a = $1", params |-> <<"7">>])}
    \cup {Some([query |-> q]) : q \in Queries}

SendArgsSet ==
  {[k \in {"to", "subject", "body"} \cup (IF IsSome(h) THEN {"htmlBody"} ELSE {})
             \cup (IF IsSome(c) THEN {"cc"} ELSE {}) \cup (IF IsSome(bc) THEN {"bcc"} ELSE {}) |->
      CASE k = "to" -> t [] k = "subject" -> sj [] k = "body" -> bd
        [] k = "htmlBody" -> Get(h) [] k = "cc" -> Get(c) [] k = "bcc" -> Get(bc)] :
     t \in {"a@x.io", "b>c?"}, sj \in {"Hi", "", "a\r\nb"}, bd \in {"hello", "", "l1\r\nl2"},
     h \in {None, Some(""), Some("<p>x</p>")}, c \in {None, Some(""), Some("c@x.io")},
     bc \in {None, Some("d@x.io")}}

PartSet ==
  {[body |-> None], [body |-> Some([data |-> None])], [body |-> Some([data |-> Some("")])],
   [body |-> Some([data |-> Some("YQ")])], [body |-> Some([data |-> Some("YWI_YQ==")])]}

SomeHeaders ==
  << [name |-> Some("Subject"), value |-> Some("x")], [name |-> Some("SUBJECT"), value |-> Some("y")],
     [name |-> None, value |-> Some("z")], [name |-> Some("From"), value |-> Some("")] >>

Message(payload) ==
  [id |-> Some("m1"), threadId |-> Some("t1"), labelIds |-> Some(<<"INBOX">>),
   snippet |-> Some(""), payload |-> payload]

Messages ==
  {Message(None), Message(Some([headers |-> Some(SomeHeaders), body |-> None, parts |-> None]))}
    \cup {Message(Some([headers |-> None, body |-> b, parts |-> ps])) :
            b \in {None, Some([data |-> None]), Some([data |-> Some("")]), Some([data |-> Some("aGk")])},
            ps \in {None} \cup {Some(x) : x \in SeqsUpTo(PartSet, MaxParts)}}

ToolNamesTried ==
  {GmailTools[i].name : i \in 1..Len(GmailTools)} \cup {PostgresTools[i].name : i \in 1..Len(PostgresTools)}
    \cup {"gmail_unknown", "postgres_unknown", "foo_bar", "", "gmail", "postgres",
          "Gmail_send_email", "xpostgres_query", "gmail_", "postgres_"}

ArgsTried(name) ==
  CASE name \in {"postgres_query", "postgres_execute"} -> QueryArgsSet
    [] name = "postgres_get_tables" -> {None, Some(<<>>), Some([schema |-> "sales"])}
    [] name = "postgres_get_table_schema" ->
         {None, Some(<<>>), Some([tableName |-> "t"]), Some([tableName |-> "t", schema |-> "sales"])}
    [] name = "gmail_list_emails" ->
         {None, Some(<<>>), Some([query |-> "from:a", maxResults |-> 5, labelIds |-> <<"INBOX">>])}
    [] name = "gmail_read_email" ->
         {None, Some([messageId |-> "m1"]), Some([messageId |-> "m1", format |-> "raw"])}
    [] name = "gmail_send_email" ->
         {None, Some([to |-> "a@x.io", subject |-> "Hi"])} \cup {Some(a) : a \in SendArgsSet}
    [] name = "gmail_get_labels" -> {None, Some(<<>>)}
    [] OTHER -> {None, Some(<<>>), Some([query |-> "SELECT 1"])}

UrisTried ==
  {"gmail://inbox", "gmail://inbox/", "gmail://sent", "gmail://", "postgres://connection",
   "postgres://connection?x", "postgres://tables", "postgres://", "file:///etc/passwd", "",
   "GMAIL://inbox", "xgmail://inbox", "gmail:/inbox", "postgres:connection"}

QueryResults ==
  {[rows |-> <<[table_name |-> "a"], [table_name |-> "b"]>>, rowCount |-> Some(2),
    fields |-> <<[name |-> "table_name", dataTypeID |-> 19, format |-> "text"]>>, command |-> "SELECT"],
   [rows |-> <<>>, rowCount |-> None, fields |-> <<>>, command |-> "CREATE"]}

\* a pool on which end() was called rejects every further query
PoolOutcomes(ph) ==
  {BackendFail("Cannot use a pool after calling end on the pool")} \cup
    (IF ph = "draining" THEN {}
     ELSE {BackendFail("connect ECONNREFUSED")} \cup {BackendOk(d) : d \in QueryResults})

\* the results of the constructor's connection test
ConnectionTestOutcomes ==
  {BackendFail("connect ECONNREFUSED"), BackendOk([rows |-> <<[now |-> "2024-01-01"]>>])}

ListOutcomes ==
  {BackendFail("invalid_grant"), BackendOk([messages |-> None]),
   BackendOk([messages |-> Some(<<[id |-> Some("m1"), threadId |-> Some("t1")],
                                  [id |-> None, threadId |-> Some("")]>>)])}

\* the results the backend may give to the one call a handler of this tool makes
OutcomesOfTool(name, ph) ==
  CASE StartsWith(name, "postgres_") -> PoolOutcomes(ph)
    [] name = "gmail_list_emails" -> ListOutcomes
    [] name = "gmail_read_email" -> {BackendFail("invalid_grant")} \cup {BackendOk(m) : m \in Messages}
    [] name = "gmail_send_email" ->
         {BackendFail("invalid_grant"), BackendOk([id |-> "m9", threadId |-> "t9"])}
    [] name = "gmail_get_labels" ->
         {BackendFail("invalid_grant"), BackendOk([labels |-> None]),
          BackendOk([labels |-> Some(<<[id |-> "INBOX"]>>)])}
    [] OTHER -> {BackendFail("unused")}

OutcomesOfUri(uri, ph) ==
  IF StartsWith(uri, "postgres://") THEN PoolOutcomes(ph) ELSE ListOutcomes

(***************************************************************************)
(* The server.                                                             *)
(***************************************************************************)
NoRequest == [op |-> "none", name |-> "", args |-> None, uri |-> ""]

NoResponse == [status |-> "none", kind |-> "", message |-> "", value |-> NoValue]

\* no event-stream connection was made
NoSse == [open |-> {}, made |-> 0, at |-> 0]

Init ==
  /\ env \in EnvSet
  /\ binding \in {"stdio", "http"}
  /\ gmail = InitializeGmail(env)
  /\ pool = InitializePostgres(env)
  /\ \E be \in ConnectionTestOutcomes : startup = ConnectionTest(pool, be)
  /\ sse = NoSse
  /\ phase = "serving"
  /\ ends = 0
  /\ req = NoRequest
  /\ res = NoResponse
  /\ calls = <<>>
  /\ invoked = <<>>

\* a request is taken while the process runs and no response is in flight
Accepting == phase \in {"serving", "draining"} /\ req.op = "none"

\* mutant of Answer: a handler whose backend call failed discards the pool
AnswerDroppingPool(request, r) ==
  /\ req' = request
  /\ res' = r.res
  /\ calls' = r.calls
  /\ invoked' = r.invoked
  /\ pool' = IF r.res.kind = "BackendFailure" THEN "null" ELSE pool
  /\ UNCHANGED <<env, binding, startup, sse, ends, gmail, phase>>

\* mutant of Answer: a handler that throws ends the process
AnswerExitOnError(request, r) ==
  /\ req' = request
  /\ res' = r.res
  /\ calls' = r.calls
  /\ invoked' = r.invoked
  /\ phase' = IF r.res.status = "error" THEN "exited" ELSE phase
  /\ UNCHANGED <<env, binding, startup, sse, ends, gmail, pool>>

\* a handler runs to its return or throw; the protocol layer turns a throw into
\* an error response (and reports to onerror), the process goes on
Answer(request, r) ==
  /\ req' = request
  /\ res' = r.res
  /\ calls' = r.calls
  /\ invoked' = r.invoked
  /\ UNCHANGED <<env, binding, startup, sse, ends, gmail, pool, phase>>

ListTools ==
  /\ Accepting
  /\ Answer([op |-> "list_tools", name |-> "", args |-> None, uri |-> ""],
            HandleListTools(binding, gmail, pool))

CallTool ==
  /\ Accepting
  /\ \E name \in ToolNamesTried :
       \E args \in ArgsTried(name) :
         \E be \in OutcomesOfTool(name, phase) :
           Answer([op |-> "call_tool", name |-> name, args |-> args, uri |-> ""],
                  HandleCallTool(binding, gmail, pool, name, args, be))

ListResources ==
  /\ Accepting
  /\ Answer([op |-> "list_resources", name |-> "", args |-> None, uri |-> ""],
            HandleListResources(binding, gmail, pool))

ReadResource ==
  /\ Accepting
  /\ \E uri \in UrisTried :
       \E be \in OutcomesOfUri(uri, phase) :
         Answer([op |-> "read_resource", name |-> "", args |-> None, uri |-> uri],
                HandleReadResource(binding, gmail, pool, env, uri, be))

\* the transport writes the response (or the protocol error) and waits for the
\* next message
Deliver ==
  /\ phase # "exited"
  /\ req.op # "none"
  /\ req' = NoRequest
  /\ res' = NoResponse
  /\ calls' = <<>>
  /\ invoked' = <<>>
  /\ UNCHANGED <<env, binding, startup, sse, ends, gmail, pool, phase>>

\* process.exit: the process ends and a response not yet written is lost
Exit ==
  /\ phase' = "exited"
  /\ req' = NoRequest
  /\ res' = NoResponse
  /\ calls' = <<>>
  /\ invoked' = <<>>

\* cleanup up to its first await: with a pool, pool.end() is called and awaited;
\* without one, both adapters' cleanups return at once and the process exits
CleanupStart ==
  IF pool # "null"
  THEN /\ phase' = "draining"
       /\ ends' = ends + 1
       /\ UNCHANGED <<env, binding, startup, sse, gmail, pool, req, res, calls, invoked>>
  ELSE /\ Exit
       /\ UNCHANGED <<env, binding, startup, sse, ends, gmail, pool>>

\* the process takes a signal while it runs; the signals taken while a cleanup
\* is pending are bounded
SignalTaken == phase = "serving" \/ (phase = "draining" /\ ends < MaxSignals)

\* the handler runs cleanup whatever the phase: a cleanup already pending does
\* not keep a second handler from starting another
Sigint ==
  /\ SignalTaken
  /\ CleanupStart

\* http-server.ts registers a SIGTERM handler; index.ts registers none and the
\* default disposition ends the process
Sigterm ==
  /\ SignalTaken
  /\ IF binding = "http" THEN CleanupStart
     ELSE /\ Exit
          /\ UNCHANGED <<env, binding, startup, sse, ends, gmail, pool>>

\* pool.end() resolves: this.pool = null, GmailService.cleanup, process.exit(0)
DrainDone ==
  /\ phase = "draining"
  /\ pool' = "null"
  /\ Exit
  /\ UNCHANGED <<env, binding, startup, sse, ends, gmail>>

Next ==
  \/ ListTools
  \/ CallTool
  \/ ListResources
  \/ ReadResource
  \/ Deliver
  \/ Sigint
  \/ Sigterm
  \/ DrainDone

Spec == Init /\ [][Next]_vars

(***************************************************************************)
(* The HTTP binding with its event-stream connections.  Spec follows one   *)
(* client channel; SpecSse follows the connections of GET /sse: sse.open   *)
(* holds the open ones, sse.made counts those made so far (the n-th        *)
(* connection owns the n-th server instance and transport) and sse.at is   *)
(* the connection of the request in flight.  The handlers of every         *)
(* instance close over the one GmailService and the one PostgresService.   *)
(***************************************************************************)
MaxConnections == 2

\* the environments of SpecSse: the Gmail client with and without its secret,
\* the database with and without a password
SseEnvSet ==
  {e \in EnvSet : e.clientId = Some("id") /\ e.refreshToken = Some("token") /\ e.host = None}

\* the tools called in SpecSse
SseToolNamesTried == ToolNamesTried \ {"gmail_send_email", "gmail_read_email"}

SseInit == Init /\ binding = "http" /\ env \in SseEnvSet

\* GET /sse: a transport on the response stream and a server instance of its
\* own are made and connected
SseConnect ==
  /\ phase \in {"serving", "draining"}
  /\ sse.made < MaxConnections
  /\ sse' = [sse EXCEPT !.made = sse.made + 1, !.open = sse.open \cup {sse.made + 1}]
  /\ UNCHANGED <<env, binding, startup, ends, gmail, pool, phase, req, res, calls, invoked>>

\* mutant of SseDisconnect: closing a connection runs the adapters' cleanup
SseDisconnectReleasingPool(c) ==
  /\ phase \in {"serving", "draining"}
  /\ c \in sse.open
  /\ sse' = [sse EXCEPT !.open = sse.open \ {c}, !.at = IF sse.at = c THEN 0 ELSE sse.at]
  /\ pool' = "null"
  /\ IF sse.at = c
     THEN req' = NoRequest /\ res' = NoResponse /\ calls' = <<>> /\ invoked' = <<>>
     ELSE UNCHANGED <<req, res, calls, invoked>>
  /\ UNCHANGED <<env, binding, startup, ends, gmail, phase>>

\* the client closes its event stream: the close handler logs; the stream is
\* gone and a response still to be written on it is lost
SseDisconnect(c) ==
  /\ phase \in {"serving", "draining"}
  /\ c \in sse.open
  /\ sse' = [sse EXCEPT !.open = sse.open \ {c}, !.at = IF sse.at = c THEN 0 ELSE sse.at]
  /\ IF sse.at = c
     THEN req' = NoRequest /\ res' = NoResponse /\ calls' = <<>> /\ invoked' = <<>>
     ELSE UNCHANGED <<req, res, calls, invoked>>
  /\ UNCHANGED <<env, binding, startup, ends, gmail, pool, phase>>

SseDisconnectSome == \E c \in sse.open : SseDisconnect(c)

\* a handler of connection c's server instance runs
SseAnswer(c, request, r) ==
  /\ req' = request
  /\ res' = r.res
  /\ calls' = r.calls
  /\ invoked' = r.invoked
  /\ sse' = [sse EXCEPT !.at = c]
  /\ UNCHANGED <<env, binding, startup, ends, gmail, pool, phase>>

\* a request arrives on an open connection and its instance answers it
SseRequest ==
  /\ Accepting
  /\ \E c \in sse.open :
       \/ SseAnswer(c, [op |-> "list_tools", name |-> "", args |-> None, uri |-> ""],
                    HandleListTools(binding, gmail, pool))
       \/ \E name \in SseToolNamesTried :
            \E args \in ArgsTried(name) :
              \E be \in OutcomesOfTool(name, phase) :
                SseAnswer(c, [op |-> "call_tool", name |-> name, args |-> args, uri |-> ""],
                          HandleCallTool(binding, gmail, pool, name, args, be))
       \/ SseAnswer(c, [op |-> "list_resources", name |-> "", args |-> None, uri |-> ""],
                    HandleListResources(binding, gmail, pool))
       \/ \E uri \in UrisTried :
            \E be \in OutcomesOfUri(uri, phase) :
              SseAnswer(c, [op |-> "read_resource", name |-> "", args |-> None, uri |-> uri],
                        HandleReadResource(binding, gmail, pool, env, uri, be))

\* the transport of the request's connection writes the response to its stream
SseDeliver ==
  /\ phase # "exited"
  /\ req.op # "none"
  /\ sse.at \in sse.open
  /\ req' = NoRequest
  /\ res' = NoResponse
  /\ calls' = <<>>
  /\ invoked' = <<>>
  /\ sse' = [sse EXCEPT !.at = 0]
  /\ UNCHANGED <<env, binding, startup, ends, gmail, pool, phase>>

SseNext ==
  \/ SseConnect
  \/ SseDisconnectSome
  \/ SseRequest
  \/ SseDeliver
  \/ Sigint
  \/ Sigterm
  \/ DrainDone

SpecSse == SseInit /\ [][SseNext]_vars

(***************************************************************************)
(* Properties.                                                             *)
(***************************************************************************)
IsCall(name) == req.op = "call_tool" /\ req.name = name

\* the request carries an argument object with a query string
HasQuery == IsSome(req.args) /\ "query" \in DOMAIN Get(req.args)

\* the handler passed the statement on: one pool.query call with the text q
SentToPool(q) ==
  /\ Len(calls) = 1
  /\ calls[1].api = "pool.query"
  /\ calls[1].request.text = q
  /\ res.kind # "WrongOperationKind"

RejectedAsWrongKind == res.status = "error" /\ res.kind = "WrongOperationKind" /\ calls = <<>>

OtherStatementTool(name) == IF name = "postgres_query" THEN "postgres_execute" ELSE "postgres_query"

\* C1: with the database adapter configured, a query whose trimmed, uppercased
\* text starts with "SELECT" is sent to the pool by postgres_query and rejected
\* with WrongOperationKind by postgres_execute; any other query is sent by
\* postgres_execute and rejected by postgres_query; so the other of the two tools
\* gives the opposite verdict on the same arguments.
C1_StatementKindSplit ==
  (req.op = "call_tool" /\ req.name \in {"postgres_query", "postgres_execute"}
     /\ pool # "null" /\ HasQuery) =>
    LET q == Get(req.args).query
        select == StartsWith(ToUpperCase(Trim(q)), "SELECT")
        mine == (req.name = "postgres_query") = select
    IN /\ IF mine THEN SentToPool(q) ELSE RejectedAsWrongKind
       /\ \A be \in PoolOutcomes(phase) :
            LET other == HandleCallTool(binding, gmail, pool, OtherStatementTool(req.name), req.args, be)
            IN IF mine THEN other.res.kind = "WrongOperationKind" /\ other.calls = <<>>
               ELSE other.res.kind # "WrongOperationKind" /\ Len(other.calls) = 1

C1_Witness ==
  /\ IsCall("postgres_query") /\ HasQuery
  /\ Get(req.args).query = "\n\t SeLeCt * FROM t "
  /\ res.status = "ok"

\* C2: a call rejected by the statement-kind check has issued no backend call.
C2_RejectedBeforeDatabase == res.kind = "WrongOperationKind" => calls = <<>>

C2_Witness ==
  /\ IsCall("postgres_query") /\ HasQuery
  /\ Get(req.args).query = "DELETE FROM x"
  /\ res.status = "error" /\ res.kind = "WrongOperationKind"

ToolsWithPrefix(tools, prefix) == {i \in 1..Len(tools) : StartsWith(tools[i].name, prefix)}

\* what C3 says of one adapter, given its handle and its prefix
AdapterContract(handle, prefix) ==
  /\ req.op = "list_tools" =>
       /\ res.status = "ok"
       /\ (handle = "null") = (ToolsWithPrefix(res.value.tools, prefix) = {})
  /\ (req.op = "call_tool" /\ StartsWith(req.name, prefix) /\ handle = "null") =>
       /\ res.status = "error" /\ res.kind = "NotConfigured"
       /\ calls = <<>>

\* C3: for each adapter, list_tools succeeds and holds no tool of the adapter's
\* prefix when the adapter is unconfigured and at least one when it is
\* configured; every call_tool of an unconfigured adapter's prefix fails with
\* NotConfigured without a backend call.
C3_UnconfiguredAdapter == AdapterContract(gmail, "gmail_") /\ AdapterContract(pool, "postgres_")

C3_Witness ==
  /\ IsCall("postgres_unknown")
  /\ pool = "null" /\ gmail = "client"
  /\ req.args = Some([query |-> "SELECT 1"])
  /\ res.kind = "NotConfigured"

\* C4: in both bindings a call_tool whose name starts with neither "gmail_" nor
\* "postgres_" fails with UnknownTool "Unknown tool: <name>", whatever the
\* arguments and the adapters' states, and no adapter method is invoked.
C4_UnknownTool ==
  (req.op = "call_tool" /\ ~StartsWith(req.name, "gmail_") /\ ~StartsWith(req.name, "postgres_")) =>
    /\ res.status = "error" /\ res.kind = "UnknownTool"
    /\ res.message = "Unknown tool: " \o req.name
    /\ invoked = <<>>
    /\ calls = <<>>

C4_Witness ==
  /\ IsCall("postgres")
  /\ binding = "stdio" /\ req.args = None
  /\ gmail = "client" /\ pool = "pool"
  /\ res.kind = "UnknownTool"

\* C5: read_resource invokes the email adapter iff the URI starts with
\* "gmail://" and the database adapter iff it starts with "postgres://"; with
\* neither scheme, and with a scheme but not the adapter's one known URI, it fails
\* with UnknownResource and issues no backend call.
C5_ResourceRouting ==
  req.op = "read_resource" =>
    /\ (invoked = <<"gmail.readResource">>) = StartsWith(req.uri, "gmail://")
    /\ (invoked = <<"postgres.readResource">>) = StartsWith(req.uri, "postgres://")
    /\ (~StartsWith(req.uri, "gmail://") /\ ~StartsWith(req.uri, "postgres://")) => invoked = <<>>
    /\ req.uri \notin {"gmail://inbox", "postgres://connection"} =>
         /\ res.status = "error" /\ res.kind = "UnknownResource"
         /\ calls = <<>>

C5_Witness ==
  /\ req.op = "read_resource" /\ req.uri = "gmail://inbox/"
  /\ gmail = "client"
  /\ invoked = <<"gmail.readResource">>
  /\ res.kind = "UnknownResource"

\* C6: every list_resources answer is the catalog gmail://inbox, then
\* postgres://connection, whatever the adapters' handles, the binding and the
\* progress of a cleanup.
C6_StaticCatalog ==
  req.op = "list_resources" =>
    /\ res.status = "ok"
    /\ [i \in 1..Len(res.value.resources) |-> res.value.resources[i].uri]
         = <<"gmail://inbox", "postgres://connection">>

C6_Witness ==
  /\ req.op = "list_resources" /\ res.status = "ok"
  /\ gmail = "null" /\ phase = "draining" /\ binding = "http"

\* a gmail_send_email call with the three required fields that reached the backend
ValidSend ==
  /\ IsCall("gmail_send_email")
  /\ IsSome(req.args)
  /\ {"to", "subject", "body"} \subseteq DOMAIN Get(req.args)
  /\ calls # <<>>

\* the payload handed to the send API, decoded, and its CRLF-separated lines
SentText == Base64DecodeToText(calls[1].request.requestBody.raw)

SentLines == Split(SentText, "\r\n")

ContainsCrlf(s) == IndexOfFrom(s, "\r\n", 1) # 0

HtmlLine == "Content-Type: text/html; charset=utf-8"

PlainLine == "Content-Type: text/plain; charset=utf-8"

\* C7 as stated: the lines are the To line, the Cc and Bcc lines when the fields
\* are given, the Subject line, the Content-Type line and the chosen body, which
\* is htmlBody when it is given and body otherwise.
C7_AsStated ==
  ValidSend =>
    LET a == Get(req.args)
        n == Len(SentLines)
    IN /\ n >= 2
       /\ SentLines[n - 1] \in {HtmlLine, PlainLine}
       /\ SentLines[n] = (IF "htmlBody" \in DOMAIN a THEN a.htmlBody ELSE a.body)
       /\ SubSeq(SentLines, 1, n - 2) =
            <<"To: " \o a.to>>
              \o (IF "cc" \in DOMAIN a THEN <<"Cc: " \o a.cc>> ELSE <<>>)
              \o (IF "bcc" \in DOMAIN a THEN <<"Bcc: " \o a.bcc>> ELSE <<>>)
              \o <<"Subject: " \o a.subject>>

\* the lines sendEmail is to produce when an optional field counts as given only
\* when it is not empty and an empty chosen body gives no line
SendLinesNonEmpty(a) ==
  LET html == "htmlBody" \in DOMAIN a /\ a.htmlBody # ""
      chosen == IF html THEN a.htmlBody ELSE a.body
  IN <<"To: " \o a.to>>
       \o (IF "cc" \in DOMAIN a /\ a.cc # "" THEN <<"Cc: " \o a.cc>> ELSE <<>>)
       \o (IF "bcc" \in DOMAIN a /\ a.bcc # "" THEN <<"Bcc: " \o a.bcc>> ELSE <<>>)
       \o <<"Subject: " \o a.subject, IF html THEN HtmlLine ELSE PlainLine>>
       \o (IF chosen # "" THEN <<chosen>> ELSE <<>>)

\* C7, amended: the decoded payload is the CRLF-join of the To line, the Cc and
\* Bcc lines of the non-empty cc and bcc, the Subject line, the Content-Type line
\* and the chosen body when it is not empty, the chosen body being htmlBody when
\* it is given and not empty and body otherwise; when no field contains a CRLF,
\* splitting on CRLF gives exactly these lines.
C7_SendRoundTrip ==
  ValidSend =>
    LET a == Get(req.args)
    IN /\ SentText = Join(SendLinesNonEmpty(a), "\r\n")
       /\ (\A k \in DOMAIN a : ~ContainsCrlf(a[k])) => SentLines = SendLinesNonEmpty(a)

C7_Witness ==
  /\ ValidSend
  /\ req.args = Some([to |-> "b>c?", subject |-> "Hi", body |-> "hello", htmlBody |-> "<p>x</p>",
                      cc |-> "c@x.io", bcc |-> "d@x.io"])
  /\ SentLines = <<"To: b>c?", "Cc: c@x.io", "Bcc: d@x.io", "Subject: Hi", HtmlLine, "<p>x</p>">>
  /\ res.status = "ok"

\* C8: for a send whose fields hold no CRLF and whose given fields are not empty,
\* the raw message is the To line, the Cc line iff cc is given, the Bcc line iff
\* bcc is given, the Subject line, the Content-Type line (text/html iff htmlBody
\* is given), a blank line, then the body.
C8_BlankLineBeforeBody ==
  (ValidSend /\ \A k \in DOMAIN Get(req.args) : Get(req.args)[k] # "" /\ ~ContainsCrlf(Get(req.args)[k])) =>
    LET a == Get(req.args)
    IN SentLines =
         <<"To: " \o a.to>>
           \o (IF "cc" \in DOMAIN a THEN <<"Cc: " \o a.cc>> ELSE <<>>)
           \o (IF "bcc" \in DOMAIN a THEN <<"Bcc: " \o a.bcc>> ELSE <<>>)
           \o <<"Subject: " \o a.subject,
                IF "htmlBody" \in DOMAIN a THEN HtmlLine ELSE PlainLine,
                "",
                IF "htmlBody" \in DOMAIN a THEN a.htmlBody ELSE a.body>>

\* a gmail_read_email call answered from a fetched message
ReadOk == IsCall("gmail_read_email") /\ res.status = "ok"

FetchedMessage == calls[1].result.data

ReturnedBody == res.value.content[1].text.json.body

\* payload.body.data of a message, undefined when any link is missing
TopLevelData(m) ==
  IF IsSome(m.payload) /\ IsSome(Get(m.payload).body) THEN Get(Get(m.payload).body).data ELSE None

HasData(part) == IsSome(part.body) /\ IsSome(Get(part.body).data) /\ Get(Get(part.body).data) # ""

\* the texts the base64 data of the inputs stand for
KnownText(data) ==
  CASE data = "YQ" -> "a"
    [] data = "YWI_YQ==" -> "ab?a"
    [] data = "aGk" -> "hi"

\* C9: without top-level body data, the body of a message with parts is the
\* decoded texts of the parts that carry data, in order, joined by "\n---\n";
\* the other parts add no segment.
C9_PartsJoined ==
  (ReadOk /\ IsSome(FetchedMessage.payload) /\ ~Truthy(TopLevelData(FetchedMessage))
     /\ IsSome(Get(FetchedMessage.payload).parts)) =>
    LET bearing == SelectSeq(Get(Get(FetchedMessage.payload).parts), HasData)
        texts == [i \in 1..Len(bearing) |-> KnownText(Get(Get(bearing[i].body).data))]
    IN /\ ReturnedBody = Some(Join(texts, "\n---\n"))
       /\ bearing # <<>> => Split(Get(ReturnedBody), "\n---\n") = texts

C9_Witness ==
  /\ ReadOk
  /\ FetchedMessage.payload =
       Some([headers |-> None, body |-> Some([data |-> None]),
             parts |-> Some(<<[body |-> Some([data |-> Some("YWI_YQ==")])], [body |-> None],
                              [body |-> Some([data |-> Some("YQ")])]>>)])
  /\ ReturnedBody = Some("ab?a\n---\na")

\* C10: with top-level body data, the body is the decoding of that data alone,
\* with or without parts.
C10_TopLevelBodyFirst ==
  (ReadOk /\ Truthy(TopLevelData(FetchedMessage))) =>
    ReturnedBody = Some(KnownText(Get(TopLevelData(FetchedMessage))))

C10_Witness ==
  /\ ReadOk
  /\ TopLevelData(FetchedMessage) = Some("aGk")
  /\ IsSome(Get(FetchedMessage.payload).parts)
  /\ \E i \in 1..Len(Get(Get(FetchedMessage.payload).parts)) :
       HasData(Get(Get(FetchedMessage.payload).parts)[i])
  /\ ReturnedBody = Some("hi")

\* the resource envelope around a tool's text payload
ResourceEnvelope(uri, toolResult) ==
  [contents |-> <<[uri |-> uri, mimeType |-> "application/json", text |-> toolResult.content[1].text]>>]

\* the backend results a handler of the request in flight may have been given:
\* the one it recorded, or any of them when it made no backend call
OutcomesSeen(all) == IF calls = <<>> THEN all ELSE {calls[1].result}

\* C11: reading gmail://inbox is equivalent to calling gmail_list_emails with
\* maxResults = 20 and no query or label filter: in every adapter state and for
\* every backend outcome the read returns the tool's text payload in a resource
\* envelope when the tool call succeeds, and fails with the tool call's error
\* kind when it fails.
C11_InboxEquivalentToList ==
  (req.op = "read_resource" /\ req.uri = "gmail://inbox") =>
    \A be \in OutcomesSeen(ListOutcomes) :
      LET tool == HandleCallTool(binding, gmail, pool, "gmail_list_emails",
                                 Some([maxResults |-> InboxMaxResults]), be).res
      IN IF tool.status = "ok"
         THEN res = Ok(ResourceEnvelope(req.uri, tool.value))
         ELSE res.status = "error" /\ res.kind = tool.kind

ReadsConnection == req.op = "read_resource" /\ req.uri = "postgres://connection"

\* the status field of the connection resource that was returned
ConnectionStatus == res.value.contents[1].text.json.status

\* the request in flight issued exactly the probe query, with this success
Probed(ok) ==
  /\ Len(calls) = 1
  /\ calls[1].api = "pool.query"
  /\ calls[1].request = [text |-> "SELECT 1", values |-> <<>>]
  /\ calls[1].result.ok = ok

\* C12: reading postgres://connection never fails and returns exactly one of
\* three statuses: "disconnected" iff the adapter has no pool (and then no probe
\* is issued), "connected" iff the pool exists and the probe query succeeds,
\* "error" iff the pool exists and the probe query fails.
C12_ConnectionStatus ==
  ReadsConnection =>
    /\ res.status = "ok"
    /\ ConnectionStatus \in {"disconnected", "connected", "error"}
    /\ (ConnectionStatus = "disconnected") = (pool = "null")
    /\ pool = "null" => calls = <<>>
    /\ (ConnectionStatus = "connected") = (pool # "null" /\ Probed(TRUE))
    /\ (ConnectionStatus = "error") = (pool # "null" /\ Probed(FALSE))

C12_Witness ==
  /\ ReadsConnection
  /\ phase = "serving"
  /\ pool = "pool" /\ Probed(FALSE)
  /\ ConnectionStatus = "error"

\* String.prototype.includes
Includes(s, sub) == IndexOfFrom(s, sub, 1) # 0

\* the tool call in flight made a backend call and the backend rejected it
BackendFailed == req.op = "call_tool" /\ calls # <<>> /\ ~calls[Len(calls)].result.ok

\* the name by which the adapter that owns the tool is known
AdapterName(tool) == IF StartsWith(tool, "gmail_") THEN "Gmail" ELSE "PostgreSQL"

\* C13: every failure of the vendor SDK or the SQL driver during a tool call
\* reaches the caller as an error whose message contains both the name of the
\* originating adapter and the name of the tool that failed.
C13_FailureNamesAdapterAndTool ==
  BackendFailed =>
    /\ res.status = "error"
    /\ Includes(res.message, AdapterName(req.name))
    /\ Includes(res.message, req.name)

\* C13, amended: every such failure reaches the caller as an error whose message
\* is the adapter's fixed prefix ("Gmail operation failed: " or "PostgreSQL
\* operation failed: ") followed by the backend's own message; the prefix names
\* the adapter and not the tool.
C13_FailureNamesAdapter ==
  BackendFailed =>
    /\ res.status = "error"
    /\ res.message = AdapterName(req.name) \o " operation failed: " \o calls[1].result.error

C13_Witness ==
  /\ BackendFailed
  /\ req.name = "gmail_get_labels"
  /\ res.message = "Gmail operation failed: invalid_grant"
  /\ ~Includes(res.message, req.name)

\* C14: a failed request never stops the server.  In both bindings a tool call
\* or resource read that fails, with any error kind, leaves the process in the
\* phase it was in and the adapters as they were, and once the error response is
\* written the server accepts the next request (the guard of every request
\* handler holds) unless a termination signal ends the process meanwhile; only
\* the failing request is affected.
C14_FailureKeepsServing ==
  [][ /\ (req.op = "none" /\ req'.op \in {"call_tool", "read_resource"} /\ res'.status = "error") =>
           (phase' = phase /\ gmail' = gmail /\ pool' = pool /\ phase' # "exited")
      /\ (req.op \in {"call_tool", "read_resource"} /\ res.status = "error"
            /\ req'.op = "none" /\ phase' # "exited") =>
           (phase' = phase /\ gmail' = gmail /\ pool' = pool /\ Accepting') ]_vars

C14_Witness ==
  /\ req.op \in {"call_tool", "read_resource"}
  /\ res.status = "error" /\ res.kind = "BackendFailure"
  /\ phase = "serving"
  /\ binding = "http"
  /\ ENABLED Deliver

\* C15: in both bindings the process exits on a termination signal (SIGINT or
\* SIGTERM), and whenever it exits cleanup has completed before: the pool was
\* drained and released (the pool field is null again).
C15_CleanupBeforeExit == phase = "exited" => pool = "null"

GmailToolNames == {GmailTools[i].name : i \in 1..Len(GmailTools)}

\* the email adapter is activated: getTools gives the catalog and handleTool
\* dispatches every tool of it
GmailActivated ==
  /\ GmailGetTools(gmail) = GmailTools
  /\ \A name \in GmailToolNames :
       GmailHandleTool(gmail, name, Some(<<>>), BackendFail("invalid_grant")).res.kind # "NotConfigured"

\* the email adapter is uninitialized: getTools gives nothing and handleTool
\* fails with NotConfigured
GmailUninitialized ==
  /\ GmailGetTools(gmail) = <<>>
  /\ \A name \in GmailToolNames :
       GmailHandleTool(gmail, name, Some(<<>>), BackendFail("invalid_grant")).res = GmailNotInitialized

\* C16 as stated: the email adapter is activated when a refresh token is
\* supplied and remains uninitialized when none is supplied.
C16_AsStated ==
  phase # "exited" => IF Truthy(env.refreshToken) THEN GmailActivated ELSE GmailUninitialized

\* C16, amended: the email adapter is activated when a client id, a client
\* secret and a refresh token are all supplied (set and not empty), and remains
\* uninitialized when any of the three is missing.
C16_GmailActivation ==
  phase # "exited" =>
    IF Truthy(env.clientId) /\ Truthy(env.clientSecret) /\ Truthy(env.refreshToken)
    THEN GmailActivated ELSE GmailUninitialized

C16_Witness ==
  /\ Truthy(env.refreshToken) /\ ~Truthy(env.clientSecret)
  /\ GmailUninitialized
  /\ IsCall("gmail_get_labels") /\ res = GmailNotInitialized

\* the constructor's connection test was issued and the driver rejected it
ConnectionTestFailed == startup # <<>> /\ ~startup[1].result.ok

\* C17: the database adapter is initialized iff a non-empty password is
\* configured: without one it stays uninitialized whatever the other connection
\* settings are, and with one it is initialized and stays so even when the
\* start-up connection test fails (until cleanup releases the pool at exit).
C17_PostgresInitialization ==
  phase # "exited" =>
    /\ (pool # "null") = Truthy(env.password)
    /\ (PostgresGetTools(pool) # <<>>) = Truthy(env.password)
    /\ (startup # <<>>) = Truthy(env.password)
    /\ ConnectionTestFailed => pool # "null"

C17_Witness ==
  /\ env.password = Some("pw") /\ env.host = Some("db.internal")
  /\ ConnectionTestFailed
  /\ phase = "serving" /\ pool = "pool"
  /\ IsCall("postgres_get_tables") /\ res.status = "ok"

\* a postgres_get_tables call that reached an initialized adapter with an
\* argument object
GetTablesCall ==
  /\ IsCall("postgres_get_tables")
  /\ pool # "null"
  /\ IsSome(TypedArgs(binding, req.args))

AnswerOf(b, be) ==
  CASE req.op = "list_tools" -> HandleListTools(b, gmail, pool)
    [] req.op = "call_tool" -> HandleCallTool(b, gmail, pool, req.name, req.args, be)
    [] req.op = "list_resources" -> HandleListResources(b, gmail, pool)
    [] req.op = "read_resource" -> HandleReadResource(b, gmail, pool, env, req.uri, be)

\* the backend results possible for the request in flight
OutcomesOfRequest ==
  CASE req.op = "call_tool" -> OutcomesOfTool(req.name, phase)
    [] req.op = "read_resource" -> OutcomesOfUri(req.uri, phase)
    [] OTHER -> {BackendFail("unused")}

\* same result, or same error kind
SameOutcome(x, y) == x.status = y.status /\ x.kind = y.kind /\ x.value = y.value

\* C19: the two bindings are interchangeable: for every protocol request, every
\* adapter state and every backend outcome the standard-stream handler and the
\* HTTP handler give the same result or the same error kind, also for a
\* call_tool request whose arguments are omitted.
C19_BindingsAgree ==
  req.op # "none" =>
    \A be \in OutcomesOfRequest :
      SameOutcome(AnswerOf("stdio", be).res, AnswerOf("http", be).res)

\* the backend API that belongs to the adapter owning the tool
OwnApi(tool, api) ==
  IF StartsWith(tool, "gmail_") THEN StartsWith(api, "gmail.")
  ELSE StartsWith(tool, "postgres_") /\ api = "pool.query"

\* the adapter method the router invokes for the tool
OwnMethods(tool) ==
  IF StartsWith(tool, "gmail_") THEN <<"gmail.handleTool">>
  ELSE IF StartsWith(tool, "postgres_") THEN <<"postgres.handleTool">>
  ELSE <<>>

\* C20: no retry, recovery or fallback.  Every tool call issues at most one
\* backend call, and only to the backend of the adapter that owns the tool; the
\* router invokes that adapter alone; when the backend call fails no further
\* call follows it and the caller receives one error.
C20_NoRetry ==
  req.op = "call_tool" =>
    /\ Len(calls) <= 1
    /\ \A i \in 1..Len(calls) : OwnApi(req.name, calls[i].api)
    /\ invoked = OwnMethods(req.name)
    /\ (calls # <<>> /\ ~calls[1].result.ok) =>
         (Len(calls) = 1 /\ res.status = "error" /\ res.kind = "BackendFailure")

C20_Witness ==
  /\ IsCall("postgres_execute")
  /\ gmail = "client"
  /\ Len(calls) = 1 /\ ~calls[1].result.ok
  /\ invoked = <<"postgres.handleTool">>
  /\ res.status = "error" /\ res.kind = "BackendFailure"

\* C21: no protocol call mutates adapter-level state.  A step that answers a
\* list_tools, call_tool, list_resources or read_resource request, successfully
\* or not, and the step that writes its response leave the email client and the
\* database pool as they were; the client never changes, and the pool changes
\* only when cleanup releases it.
C21_RequestsKeepAdapters ==
  [][ /\ (req.op = "none" /\ req'.op # "none") => (gmail' = gmail /\ pool' = pool)
      /\ (req.op # "none" /\ phase' # "exited") => (gmail' = gmail /\ pool' = pool)
      /\ gmail' = gmail
      /\ pool' # pool => (phase = "draining" /\ pool = "pool" /\ pool' = "null") ]_vars

C21_Witness ==
  /\ IsCall("postgres_query")
  /\ res.status = "error" /\ res.kind = "BackendFailure"
  /\ gmail = "client" /\ pool = "pool"
  /\ phase = "serving"

\* the connections made so far
SseMade == 1..sse.made

\* C22: in the HTTP binding every GET /sse connection gets a server instance and
\* channel of its own (a new one, never one handed out before) while all share
\* the two adapters; when a client disconnects only its connection goes: the
\* pool and the email client are unchanged, the other connections stay open
\* with the request in flight on them untouched, and while the process serves, a
\* request on any open connection, older or later, is still answered.
C22_DisconnectKeepsAdapters ==
  [][ /\ sse.open \subseteq SseMade
      /\ (sse'.made # sse.made) =>
           /\ sse'.made = sse.made + 1
           /\ sse'.open = sse.open \cup {sse'.made}
           /\ sse'.made \notin SseMade
           /\ gmail' = gmail /\ pool' = pool /\ phase' = phase
      /\ (sse'.open # sse.open /\ sse'.made = sse.made) =>
           /\ \E c \in sse.open : sse'.open = sse.open \ {c}
           /\ gmail' = gmail /\ pool' = pool /\ phase' = phase
           /\ (sse.at \in sse'.open) => (sse'.at = sse.at /\ req' = req /\ res' = res)
      /\ (phase = "serving" /\ req.op = "none" /\ sse.open # {}) => ENABLED SseRequest
    ]_vars

C22_Witness ==
  /\ sse.made = 2 /\ sse.open = {2} /\ sse.at = 2
  /\ IsCall("postgres_get_tables") /\ res.status = "ok"
  /\ pool = "pool" /\ gmail = "client"
  /\ phase = "serving"

\* a postgres_query or postgres_execute call, on an initialized adapter, of a
\* write wrapped in a leading WITH clause
WithWriteCall ==
  /\ req.op = "call_tool" /\ req.name \in {"postgres_query", "postgres_execute"}
  /\ pool # "null"
  /\ HasQuery
  /\ StartsWith(ToUpperCase(Trim(Get(req.args).query)), "WITH")
  /\ Includes(Get(req.args).query, "DELETE FROM")

\* C23 as stated: a write wrapped in a leading WITH clause is classified as
\* read-only: the check of postgres_query does not detect it and the statement
\* is sent to the database through postgres_query.
C23_AsStated ==
  (WithWriteCall /\ req.name = "postgres_query") => SentToPool(Get(req.args).query)

\* C23, amended: a write wrapped in a leading WITH clause is not classified as
\* read-only: postgres_query rejects it with WrongOperationKind before anything
\* is sent, and the statement reaches the database through postgres_execute.
C23_WithIsNotReadOnly ==
  WithWriteCall =>
    IF req.name = "postgres_query" THEN RejectedAsWrongKind
    ELSE SentToPool(Get(req.args).query)

C23_Witness ==
  /\ WithWriteCall /\ req.name = "postgres_query"
  /\ Get(req.args).query = " WITH d AS (DELETE FROM x RETURNING *) SELECT * FROM t "
  /\ RejectedAsWrongKind

\* the tools a list_tools request was answered with
ListedTools == res.value.tools

\* C24: catalog and dispatch agree.  In every adapter state each tool name that
\* list_tools returns starts with the prefix of the adapter that advertised it
\* and occurs once in the list, and a call_tool of that name in the same state,
\* whatever its arguments and the backend's answer, is routed to that adapter
\* and matched by one of its handler cases: it never fails with UnknownTool.
C24_CatalogMatchesDispatch ==
  (req.op = "list_tools" /\ res.status = "ok") =>
    /\ ListedTools = GmailGetTools(gmail) \o PostgresGetTools(pool)
    /\ \A i \in 1..Len(ListedTools) :
         LET name == ListedTools[i].name
             owner == IF i <= Len(GmailGetTools(gmail)) THEN "gmail" ELSE "postgres"
         IN /\ StartsWith(name, owner \o "_")
            /\ \A j \in 1..Len(ListedTools) : ListedTools[j].name = name => j = i
            /\ \A args \in ArgsTried(name) :
                 \A be \in OutcomesOfTool(name, phase) :
                   LET r == HandleCallTool(binding, gmail, pool, name, args, be)
                   IN /\ r.invoked = <<owner \o ".handleTool">>
                      /\ r.res.kind # "UnknownTool"

C24_Witness ==
  /\ req.op = "list_tools" /\ res.status = "ok"
  /\ Len(ListedTools) = 8
  /\ ListedTools[8].name = "postgres_get_table_schema"
  /\ HandleCallTool(binding, gmail, pool, "postgres_get_table_schema", Some([tableName |-> "t"]),
                    BackendFail("connect ECONNREFUSED")).res.kind = "BackendFailure"

\* C25: the database pool is drained at most once: for every sequence and
\* interleaving of shutdown signals, a second one arriving while the first
\* cleanup still awaits the drain included, pool.end() is invoked at most one
\* time over the life of the process.
C25_PoolEndedAtMostOnce == ends <= 1

\* the database adapter's cleanup has completed: the pool the constructor built
\* was released
PoolReleased == Truthy(env.password) /\ pool = "null"

PostgresNamesTried == {n \in ToolNamesTried : StartsWith(n, "postgres_")}

\* C26: after the database adapter's cleanup has completed the adapter behaves
\* as unconfigured: getTools returns an empty list, every postgres_* tool call
\* fails with NotConfigured, postgres://connection reports "disconnected", no
\* statement is issued on the drained pool, and a further cleanup is a no-op (it
\* calls pool.end() no more).
C26_ReleasedPoolIsUnconfigured ==
  PoolReleased =>
    /\ ends >= 1
    /\ HandleListTools(binding, gmail, pool).res.value.tools = GmailGetTools(gmail)
    /\ \A name \in PostgresNamesTried :
         \A args \in ArgsTried(name) :
           \A be \in PoolOutcomes("serving") :
             LET r == HandleCallTool(binding, gmail, pool, name, args, be)
             IN r.res = PostgresNotInitialized /\ r.calls = <<>>
    /\ \A be \in PoolOutcomes("serving") :
         LET r == HandleReadResource(binding, gmail, pool, env, "postgres://connection", be)
         IN /\ r.res.status = "ok"
            /\ r.res.value.contents[1].text.json.status = "disconnected"
            /\ r.calls = <<>>
    /\ ~ENABLED (CleanupStart /\ ends' # ends)

C26_Witness ==
  /\ PoolReleased
  /\ phase = "exited" /\ ends = 1
  /\ ConnectionTestFailed
  /\ binding = "stdio"

====
